---- MODULE Spec2Model ----
(***************************************************************************)
(* Captioning / translation pipeline of the video-call application.        *)
(*                                                                         *)
(*  - the translation client (src/src/utils/marianMT.ts): the MarianMT     *)
(*    translate / setCORS pair and the LibreTranslate translate / setCORS  *)
(*    pair, each modelled call by call;                                    *)
(*  - the Captions component (src/unnamed/part_002): the effect that runs  *)
(*    on every change of transcriptionQueue, the async translateText it    *)
(*    starts, and the 5 second display timer.                              *)
(*                                                                         *)
(* JavaScript strings are sequences of one-character strings, so that      *)
(* split, trim and truthiness are computed and not assumed.                *)
(***************************************************************************)
EXTENDS Integers, Sequences, FiniteSets, TLC

VARIABLES
    client,            \* one call of the translation client, step by step
    transcriptionQueue,\* Captions prop: the caption queue (parent state)
    languageCode,      \* Captions prop: the viewer's language code
    caption,           \* Captions state: {sender, message}
    translationError,  \* Captions state: string | null
    inflight,          \* translateText invocations suspended at the await
    timer,             \* the pending 5 s display timers and the latest one
    mounted,           \* TRUE until the Captions component is torn down
    pushed,            \* number of utterances pushed so far
    nextInv,           \* number of translateText invocations started so far
    captionLog,        \* history: the utterances (ids) of the caption updates
    spoken,            \* history: the utterances (ids) of the speakOut calls
    lastDrain,         \* history: the drain iteration the last step completed
    transcribe,        \* the useTranscribe hook, its props and the recognition
    rooms              \* roomsRouter: the database and the calls in progress

vars == << client, transcriptionQueue, languageCode, caption, translationError,
           inflight, timer, mounted, pushed, nextInv, captionLog, spoken,
           lastDrain, transcribe, rooms >>

\* the variables of the other components
otherVars == << transcribe, rooms >>

captionVars == << transcriptionQueue, languageCode, caption, translationError,
                  inflight, timer, mounted, pushed, nextInv, captionLog, spoken,
                  lastDrain >>

(***************************************************************************)
(* Bounds                                                                  *)
(***************************************************************************)
MaxPush == 2
MaxChanges == 3
MaxFinal == 2
MaxCalls == 2

(***************************************************************************)
(* JavaScript values                                                       *)
(***************************************************************************)
\* the value undefined where a string is expected
Undefined == << "undefined" >>

\* JavaScript truthiness of a string-or-undefined value
Truthy(s) == s # << >> /\ s # Undefined

AUTO == << "a", "u", "t", "o" >>
EN == << "e", "n" >>
FR == << "f", "r" >>

RECURSIVE trimStart(_)
trimStart(s) ==
    IF s # << >> /\ Head(s) = " " THEN trimStart(Tail(s)) ELSE s

RECURSIVE trimEnd(_)
trimEnd(s) ==
    IF s # << >> /\ s[Len(s)] = " " THEN trimEnd(SubSeq(s, 1, Len(s) - 1)) ELSE s

\* String.prototype.trim
trim(s) == trimEnd(trimStart(s))

\* !text || text.trim() === ""
IsBlank(text) == ~Truthy(text) \/ trim(text) = << >>

RECURSIVE splitFirst(_)
\* languageCode.split("-")[0]
splitFirst(s) ==
    IF s = << >> \/ Head(s) = "-" THEN << >> ELSE << Head(s) >> \o splitFirst(Tail(s))

\* options.from || "auto"
FromOrAuto(options) == IF Truthy(options.from) THEN options.from ELSE AUTO

(***************************************************************************)
(* The inputs of the model                                                 *)
(***************************************************************************)
\* texts of utterances: empty, whitespace-only, and ordinary ones
Messages == { << >>, << " " >>, << "a" >>, << " ", "b" >> }

\* translated texts an endpoint can answer
Translations == { << "a" >>, << "x" >> }

LanguageCodes == { << "k", "n", "-", "I", "N" >>, << "e", "n" >>, << >> }

FromValues == { << >>, AUTO, EN }
ToValues == { EN, FR }

\* what one HTTP call can come to:
\*   error    the request fails (network error, non-2xx status)
\*   timeout  the 5 s timeout fires
\*   nullData a 2xx answer whose body is empty (response.data is falsy)
\*   noText   a 2xx answer that carries no translated text
\*   ok       a 2xx answer that carries the translated text `text`
\* `detected` is the detected_source_language field of the answer (<< >> when
\* the answer has none); only the MarianMT endpoint contract has it.
Outcomes ==
    { [kind |-> k, text |-> << >>, detected |-> << >>] :
          k \in { "error", "timeout", "nullData", "noText" } }
        \cup { [kind |-> "ok", text |-> t, detected |-> << >>] : t \in Translations }

MarianOutcomes ==
    Outcomes \cup { [kind |-> "noText", text |-> << >>, detected |-> FR] }
             \cup { [kind |-> "ok", text |-> t, detected |-> FR] : t \in Translations }

\* the answers drawn for the calls the Captions component makes
CaptionOutcomes ==
    { o \in Outcomes : o.kind \in { "error", "noText" } \/ o.text = << "x" >> }

\* the utterances (sender, message) drawn for the caption queue
CaptionUtterances ==
    { << "A", << "a" >> >>, << "B", << "a" >> >>, << "A", << " " >> >>, << "B", << >> >> }

Versions == { "translateMarian", "setCORSMarian", "translateLibre", "setCORSLibre" }

(***************************************************************************)
(* Translation client                                                      *)
(***************************************************************************)
\* the free LibreTranslate endpoints tried by translateWithCORS, in order
translateEndpoints == << "libre", "argos" >>

\* the short-circuit result for an empty or whitespace-only text
ShortCircuit(options) ==
    [text |-> << >>, iso |-> FromOrAuto(options), raw |-> "empty"]

\* the result built by the catch blocks: the original text and raw.error
Degraded(text, options) ==
    [text |-> text, iso |-> FromOrAuto(options), raw |-> "error"]

NoResult == [text |-> Undefined, iso |-> << >>, raw |-> "none"]

Returned(c, res) == [c EXCEPT !.pc = "returned", !.result = res]

\* a call that has not started: its arguments, and whether the endpoint of
\* the MarianMT version is configured
NewCall(version, text, options, configured) ==
    [version |-> version, pc |-> "start", text |-> text,
     options |-> options, configured |-> configured,
     translatedText |-> text, translationSuccess |-> FALSE,
     idx |-> 1, calls |-> << >>, outcomes |-> << >>,
     result |-> NoResult]

\* the call up to its first network request
ClientStart(version, text, options, configured) ==
    LET c0 == NewCall(version, text, options, configured)
    IN  CASE version = "translateMarian" ->
               IF ~configured
                   THEN Returned(c0, Degraded(text, options))
                   ELSE [c0 EXCEPT !.pc = "marian"]
          [] version = "setCORSMarian" ->
               [c0 EXCEPT !.pc = "marian"]
          [] version = "translateLibre" ->
               IF IsBlank(text)
                   THEN Returned(c0, ShortCircuit(options))
                   ELSE [c0 EXCEPT !.pc = "libre"]
          [] version = "setCORSLibre" ->
               IF IsBlank(text)
                   THEN Returned(c0, ShortCircuit(options))
                   ELSE [c0 EXCEPT !.pc = "loop"]

\* the return statement of the LibreTranslate translateWithCORS
ReturnWithCORS(c) ==
    Returned(c, [text |-> c.translatedText, iso |-> FromOrAuto(c.options),
                 raw |-> "translatedText"])

\* response.data.detected_source_language || options.from || "auto"
DetectedOrFrom(options, o) ==
    IF Truthy(o.detected) THEN o.detected ELSE FromOrAuto(options)

\* the MarianMT request and what follows it (translate and translateWithCORS)
AttemptMarian(c, o) ==
    CASE o.kind \in { "error", "timeout", "nullData" } ->
           Returned(c, Degraded(c.text, c.options))
      [] o.kind = "noText" ->
           Returned(c, [text |-> Undefined, iso |-> DetectedOrFrom(c.options, o), raw |-> "data"])
      [] o.kind = "ok" ->
           Returned(c, [text |-> o.text, iso |-> DetectedOrFrom(c.options, o), raw |-> "data"])

\* the LibreTranslate request of translate and what follows it
AttemptLibre(c, o) ==
    CASE o.kind \in { "error", "timeout", "nullData" } ->
           Returned(c, Degraded(c.text, c.options))
      [] o.kind = "noText" ->
           Returned(c, [text |-> c.text, iso |-> FromOrAuto(c.options), raw |-> "data"])
      [] o.kind = "ok" ->
           Returned(c, [text |-> o.text, iso |-> FromOrAuto(c.options), raw |-> "data"])

\* a variant of the loop that goes on to the next endpoint after a success
AttemptLoopNoBreak(c, o) ==
    LET d == IF o.kind = "ok"
                 THEN [c EXCEPT !.translatedText = o.text, !.translationSuccess = TRUE]
                 ELSE c
    IN  IF d.idx < Len(translateEndpoints)
            THEN [d EXCEPT !.idx = d.idx + 1]
            ELSE IF d.translationSuccess THEN ReturnWithCORS(d)
                 ELSE [d EXCEPT !.pc = "google"]

\* one iteration of the endpoint loop of translateWithCORS
AttemptLoop(c, o) ==
    IF o.kind = "ok"
        THEN ReturnWithCORS([c EXCEPT !.translatedText = o.text,
                                      !.translationSuccess = TRUE])
        ELSE IF c.idx < Len(translateEndpoints)
                 THEN [c EXCEPT !.idx = c.idx + 1]
                 ELSE [c EXCEPT !.pc = "google"]

\* the Google Translate fallback of translateWithCORS
AttemptGoogle(c, o) ==
    CASE o.kind = "ok" ->
           ReturnWithCORS([c EXCEPT !.translatedText = o.text,
                                    !.translationSuccess = TRUE])
      [] o.kind = "noText" ->
           ReturnWithCORS([c EXCEPT !.translatedText = Undefined,
                                    !.translationSuccess = TRUE])
      [] OTHER -> ReturnWithCORS(c)

\* the endpoint the next request goes to
Endpoint(c) ==
    CASE c.pc = "loop" -> translateEndpoints[c.idx]
      [] OTHER -> c.pc

\* one network request of a call, with the answer o, and the code up to the
\* next request or the return
Attempt(c, o) ==
    LET d == [c EXCEPT !.calls = Append(c.calls, Endpoint(c)),
                       !.outcomes = Append(c.outcomes, o)]
    IN  CASE c.pc = "marian" -> AttemptMarian(d, o)
          [] c.pc = "libre" -> AttemptLibre(d, o)
          [] c.pc = "loop" -> AttemptLoop(d, o)
          [] c.pc = "google" -> AttemptGoogle(d, o)

RECURSIVE Runs(_, _)
\* the ways a call can run to its return when each of its requests is
\* answered by one of outs
Runs(c, outs) ==
    IF c.pc = "returned" THEN { c }
    ELSE UNION { Runs(Attempt(c, o), outs) : o \in outs }

\* every endpoint of the chain was called and errored or timed out
AllFailed(c) ==
    /\ Len(c.calls) = Len(translateEndpoints) + 1
    /\ \A k \in 1..Len(c.outcomes) : c.outcomes[k].kind \in { "error", "timeout" }

\* const translate = setCORS(): the results translate(text, options) can
\* resolve with, each with whether all its endpoints failed
translate(text, options) ==
    { [result |-> c.result, allFailed |-> AllFailed(c)] :
          c \in Runs(ClientStart("setCORSLibre", text, options, TRUE), CaptionOutcomes) }

(***************************************************************************)
(* useTranscribe hook                                                      *)
(***************************************************************************)
EN_US == << "e", "n", "-", "U", "S" >>
KN_IN == << "k", "n", "-", "I", "N" >>

\* the languageCode prop; << >> when it is not given
RecognitionLanguages == { << >>, EN_US, KN_IN }

\* texts the recognition delivers
SpokenTexts == { << "h", "i" >>, << "o", "k" >> }

RoomName == "room"

\* SpeechRecognition.stopListening(): the sessions are told to stop; the
\* promise it returns settles later and is not awaited
stopListening(sessions) ==
    { [x EXCEPT !.status = "stopping"] : x \in sessions }

\* SpeechRecognition.startListening({continuous: true, language})
startListening(sessions, n, language) ==
    sessions \cup { [id |-> n + 1, language |-> language, status |-> "listening"] }

\* languageCode || "en-US"
recognitionLanguage(code) == IF Truthy(code) THEN code ELSE EN_US

\* a variant of the listening effect without the capability check
listeningEffectNoCheck(h) ==
    IF h.audioEnabled
        THEN [h EXCEPT
                 !.sessions = startListening(stopListening(h.sessions), h.started,
                                             recognitionLanguage(h.languageCode)),
                 !.started = h.started + 1,
                 !.startedDuringStop = h.startedDuringStop \/ h.sessions # { }]
        ELSE [h EXCEPT !.sessions = stopListening(h.sessions)]

\* the effect on [audioEnabled, languageCode, browserSupportsSpeechRecognition]
listeningEffect(h) ==
    IF ~h.supported THEN h
    ELSE IF h.audioEnabled
        THEN [h EXCEPT
                 !.sessions = startListening(stopListening(h.sessions), h.started,
                                             recognitionLanguage(h.languageCode)),
                 !.started = h.started + 1,
                 !.startedDuringStop = h.startedDuringStop \/ h.sessions # { }]
        ELSE [h EXCEPT !.sessions = stopListening(h.sessions)]

\* a variant of the listening effect that returns no cleanup
listeningCleanupNoStop(h) == h

\* the cleanup the listening effect returns; the early return of the
\* capability check returns none
listeningCleanup(h) ==
    IF ~h.supported THEN h
    ELSE [h EXCEPT !.sessions = stopListening(h.sessions)]

\* a variant of the finalTranscript effect without the test for ""
finalTranscriptEffectNoGuard(h) ==
    [h EXCEPT !.emitted = Append(h.emitted,
                  [message |-> h.transcript, roomName |-> RoomName, isFinal |-> TRUE]),
              !.transcript = << >>,
              !.finalTranscript = << >>]

\* the effect on [finalTranscript]: pusherMutation.mutate and resetTranscript
finalTranscriptEffect(h) ==
    IF h.finalTranscript # << >>
        THEN [h EXCEPT !.emitted = Append(h.emitted,
                           [message |-> h.transcript, roomName |-> RoomName, isFinal |-> TRUE]),
                       !.transcript = << >>,
                       !.finalTranscript = << >>]
        ELSE h

RECURSIVE settle(_, _)
\* the renders that follow a change of finalTranscript: the effect runs again
\* for as long as finalTranscript differs from its value at the last render
settle(old, h) ==
    IF h.finalTranscript = old THEN h
    ELSE settle(h.finalTranscript, finalTranscriptEffect(h))

\* the hook before its first render
NewHook(supported, audioEnabled, code) ==
    [mounted |-> TRUE, supported |-> supported, audioEnabled |-> audioEnabled,
     languageCode |-> code, sessions |-> { }, started |-> 0,
     startedDuringStop |-> FALSE, transcript |-> << >>, finalTranscript |-> << >>,
     emitted |-> << >>, finals |-> 0, changes |-> 0]

IdleTranscribe == NewHook(FALSE, FALSE, << >>)

(***************************************************************************)
(* roomsRouter: joinRoom and createRoom                                    *)
(***************************************************************************)
\* ctx.session.user.id; "" is an id that is missing
Users == { "", "u1" }

\* input.roomName; z.string() lets "" through
RoomNames == { "", "r1" }

\* the names the database gives to the rooms it creates, in order
GeneratedNames == << "r1", "r2", "r3", "r4" >>

NoValue == [identity |-> "", accessToken |-> "", roomName |-> ""]

\* the access token of a user for a room
Token(user, room) == << "jwt", user, room >>

\* a procedure call before it runs
NewProcedure(kind, user, room, tokenOk) ==
    [kind |-> kind, user |-> user, room |-> room, tokenOk |-> tokenOk,
     pc |-> "start", outcome |-> "pending", value |-> NoValue,
     dbFailed |-> FALSE, livekitFailed |-> FALSE, created |-> FALSE]

\* throw error: the procedure fails
Fails(c) == [c EXCEPT !.pc = "done", !.outcome = "failed"]

\* return: the procedure answers v
Returns(c, v) == [c EXCEPT !.pc = "done", !.outcome = "returned", !.value = v]

\* a variant of joinRoom whose outer catch answers instead of throwing
joinStartSwallow(c) ==
    IF c.user = "" \/ c.room = "" \/ ~c.tokenOk
        THEN Returns(c, NoValue)
        ELSE [c EXCEPT !.pc = "find",
                       !.value = [identity |-> c.user,
                                  accessToken |-> Token(c.user, c.room),
                                  roomName |-> ""]]

\* joinRoom up to its first await: validation, token, result
joinStart(c) ==
    IF c.user = "" \/ c.room = "" \/ ~c.tokenOk
        THEN Fails(c)
        ELSE [c EXCEPT !.pc = "find",
                       !.value = [identity |-> c.user,
                                  accessToken |-> Token(c.user, c.room),
                                  roomName |-> ""]]

\* the rows of the Participant table with the key (user, room)
Rows(participants, user, room) ==
    { k \in 1..Len(participants) : participants[k] = << user, room >> }

\* the unique key UserId_RoomName of the Participant table is taken
UniqueKeyTaken(participants, user, room) == Rows(participants, user, room) # { }

\* a variant of joinRoom without the try/catch around the database calls
joinAfterFindRethrow(c, participants, dbFails) ==
    IF dbFails THEN Fails([c EXCEPT !.dbFailed = TRUE])
    ELSE IF Rows(participants, c.user, c.room) # { }
        THEN Returns(c, c.value)
        ELSE [c EXCEPT !.pc = "create"]

\* joinRoom after participant.findUnique: dbFails says that the query throws
joinAfterFind(c, participants, dbFails) ==
    IF dbFails THEN Returns([c EXCEPT !.dbFailed = TRUE], c.value)
    ELSE IF Rows(participants, c.user, c.room) # { }
        THEN Returns(c, c.value)
        ELSE [c EXCEPT !.pc = "create"]

\* a variant of participant.create that inserts whatever the table holds
CreateThrowsOnlyDbError(c, participants, dbFails) == dbFails

\* participant.create throws: a database error, or the unique key
\* UserId_RoomName is taken
CreateThrows(c, participants, dbFails) ==
    dbFails \/ UniqueKeyTaken(participants, c.user, c.room)

\* joinRoom after participant.create
joinAfterCreate(c, participants, dbFails) ==
    IF CreateThrows(c, participants, dbFails)
        THEN Returns([c EXCEPT !.dbFailed = TRUE], c.value)
        ELSE Returns([c EXCEPT !.created = TRUE], c.value)

\* createRoom after room.create: name is the name of the new room
createAfterDb(c, name, dbFails) ==
    IF dbFails THEN Fails([c EXCEPT !.dbFailed = TRUE])
    ELSE [c EXCEPT !.pc = "livekit", !.room = name]

\* a variant of createRoom without the try/catch around the LiveKit call
createAfterLivekitRethrow(c, livekitFails) ==
    IF livekitFails THEN Fails([c EXCEPT !.livekitFailed = TRUE])
    ELSE Returns(c, [NoValue EXCEPT !.roomName = c.room])

\* createRoom after roomClient.createRoom
createAfterLivekit(c, livekitFails) ==
    Returns([c EXCEPT !.livekitFailed = livekitFails],
            [NoValue EXCEPT !.roomName = c.room])

IdleRooms == [participants |-> << >>, dbRooms |-> { }, calls |-> << >>]

(***************************************************************************)
(* Captions component                                                      *)
(***************************************************************************)
Null == "null"

TranslationFailed == "Translation failed - using original text"
TranslationErrorText == "Translation error - using original text"

\* useState() without an initial value
UndefinedCaption == [sender |-> "", message |-> Undefined]

\* the caption the display timer sets
ClearedCaption == [sender |-> "", message |-> << >>]

Utterance(i, s, m) == [id |-> i, sender |-> s, message |-> m]

\* a variant without the `|| "en"` default
targetLangNoDefault(code) == splitFirst(code)

\* languageCode.split("-")[0] || "en"
targetLang(code) ==
    IF Truthy(splitFirst(code)) THEN splitFirst(code) ELSE EN

\* (prev) => prev.slice(1)
slice1(prev) == IF prev = << >> THEN << >> ELSE Tail(prev)

\* transcriptionQueue.length > 0 && transcriptionQueue[0]?.message
HasWork(q) == Len(q) > 0 /\ Truthy(q[1].message)

\* the options translateText passes to translate
TranslateOptions(code) == [from |-> AUTO, to |-> targetLang(code)]

\* a translateText invocation suspended at `await translate(...)`: it keeps the
\* transcriptionQueue and languageCode of the render that started it
Invocation(n, q, code) == [inv |-> n, queue |-> q, languageCode |-> code]

\* the invocation's translate call short-circuited, so its continuation is a
\* pending microtask and runs before any other event
IsMicrotask(i) ==
    ClientStart("setCORSLibre", i.queue[1].message,
                TranslateOptions(i.languageCode), TRUE).pc = "returned"

MicrotaskPending == \E i \in inflight : IsMicrotask(i)

\* a variant that removes the item at the end of the try block
sliceInTry(threw) == ~threw

\* finally { setTranscriptionQueue((prev) => prev.slice(1)) }: whether the
\* item is removed, given that the try block threw
sliceInFinally(threw) == TRUE

\* a variant of translateText without the `if (res.text)` test
translateTextResumeNoCheck(i, res, speakThrows) ==
    LET head == i.queue[1]
        said == [text |-> res.text, interrupt |-> Len(i.queue) <= 1,
                 languageCode |-> i.languageCode, id |-> head.id]
    IN  IF speakThrows
            THEN [caption |-> [sender |-> head.sender, message |-> head.message],
                  error |-> TranslationErrorText,
                  speak |-> << said >>, removes |-> TRUE, escaped |-> FALSE]
            ELSE [caption |-> [sender |-> head.sender, message |-> res.text],
                  error |-> Null,
                  speak |-> << said >>, removes |-> TRUE, escaped |-> FALSE]

\* translateText from the await on: what it does with the result res of the
\* translate call; speakThrows says that speakOut throws
translateTextResume(i, res, speakThrows) ==
    LET head == i.queue[1]
        original == [sender |-> head.sender, message |-> head.message]
        isEmpty == Len(i.queue) <= 1
        said == [text |-> res.text, interrupt |-> isEmpty,
                 languageCode |-> i.languageCode, id |-> head.id]
    IN  IF Truthy(res.text)
            THEN IF speakThrows
                     THEN [caption |-> original, error |-> TranslationErrorText,
                           speak |-> << said >>, removes |-> sliceInFinally(TRUE),
                           escaped |-> FALSE]
                     ELSE [caption |-> [sender |-> head.sender, message |-> res.text],
                           error |-> Null,
                           speak |-> << said >>, removes |-> sliceInFinally(FALSE),
                           escaped |-> FALSE]
            ELSE [caption |-> original, error |-> TranslationFailed,
                  speak |-> << >>, removes |-> sliceInFinally(FALSE), escaped |-> FALSE]

\* the invocations the effect starts for the queue q: translateText()
Started(q, n, code) ==
    IF HasWork(q) THEN { Invocation(n + 1, q, code) } ELSE { }

\* no display timer: none pending, none armed by the latest effect run
NoTimer == [pending |-> { }, current |-> 0]

\* a variant of the cleanup that does not clear the timer
cleanupNoClear(tm) == [tm EXCEPT !.current = 0]

\* the cleanup the effect returns: clearTimeout(timer) for the timer that
\* run of the effect armed
cleanup(tm) == [pending |-> tm.pending \ { tm.current }, current |-> 0]

\* const timer = setTimeout(..., 5000): a new timer id is pending
armTimer(tm) ==
    LET id == CHOOSE n \in 1..(Cardinality(tm.pending) + 1) :
                  /\ n \notin tm.pending
                  /\ \A m \in 1..(n - 1) : m \in tm.pending
    IN  [pending |-> tm.pending \cup { id }, current |-> id]

\* a variant of the effect that arms the timer only for a queue with items
RunEffectTimerIfItems(q, fl) ==
    /\ inflight' = fl \cup Started(q, nextInv, languageCode)
    /\ nextInv' = nextInv + Cardinality(Started(q, nextInv, languageCode))
    /\ timer' = IF q # << >> THEN armTimer(cleanup(timer)) ELSE cleanup(timer)

\* the effect of useEffect(..., [transcriptionQueue]) for the new queue q,
\* with fl the invocations still suspended: the previous cleanup clears the
\* timer, translateText is called, the timer is armed again
RunEffect(q, fl) ==
    /\ inflight' = fl \cup Started(q, nextInv, languageCode)
    /\ nextInv' = nextInv + Cardinality(Started(q, nextInv, languageCode))
    /\ timer' = armTimer(cleanup(timer))

\* lastDrain when the last step was not a completed drain iteration
NoDrain ==
    [id |-> 0, message |-> << >>, sender |-> "", allFailed |-> FALSE,
     text |-> << >>, threw |-> FALSE, escaped |-> FALSE, said |-> << >>,
     lenBefore |-> 0, lenAfter |-> 0, removed |-> 0, others |-> 0]

InitCaptions ==
    /\ transcriptionQueue = << >>
    /\ caption = UndefinedCaption
    /\ translationError = Null
    /\ inflight = { }
    /\ timer = armTimer(NoTimer)
    /\ mounted = TRUE
    /\ pushed = 0
    /\ nextInv = 0
    /\ captionLog = << >>
    /\ spoken = << >>
    /\ lastDrain = NoDrain

IdleClient ==
    ClientStart("setCORSLibre", << >>, [from |-> << >>, to |-> EN], TRUE)

Init ==
    /\ InitCaptions
    /\ languageCode \in LanguageCodes
    /\ client = IdleClient
    /\ transcribe = IdleTranscribe
    /\ rooms = IdleRooms

\* the parent's handler of an incoming transcript message puts the utterance
\* at the tail of the caption queue
Enqueue(q, u) == Append(q, u)

\* an utterance arrives: the parent appends it to transcriptionQueue and the
\* component, if it is mounted, re-renders, which runs the effect
Push(s, m) ==
    /\ pushed < MaxPush
    /\ ~MicrotaskPending
    /\ pushed' = pushed + 1
    /\ transcriptionQueue' = Enqueue(transcriptionQueue, Utterance(pushed + 1, s, m))
    /\ IF mounted THEN RunEffect(transcriptionQueue', inflight)
                  ELSE UNCHANGED << inflight, nextInv, timer >>
    /\ lastDrain' = NoDrain
    /\ UNCHANGED << otherVars, client, languageCode, caption, translationError,
                    captionLog, spoken, mounted >>

\* the translate call of invocation i resolves after the component was torn
\* down and translateText runs to its end: the updates of the component's own
\* state are dropped, speakOut and the parent's setTranscriptionQueue are not
CompleteUnmounted(i) ==
    /\ i \in inflight
    /\ ~mounted
    /\ MicrotaskPending => IsMicrotask(i)
    /\ \E c \in translate(i.queue[1].message, TranslateOptions(i.languageCode)),
          speakThrows \in BOOLEAN :
         LET e == translateTextResume(i, c.result, speakThrows)
         IN  /\ spoken' = spoken \o [k \in 1..Len(e.speak) |-> e.speak[k].id]
             /\ transcriptionQueue' =
                    IF e.removes THEN slice1(transcriptionQueue) ELSE transcriptionQueue
    /\ inflight' = inflight \ { i }
    /\ lastDrain' = NoDrain
    /\ UNCHANGED << otherVars, client, languageCode, caption, translationError,
                    captionLog, timer, mounted, pushed, nextInv >>

\* the translate call of invocation i resolves and translateText runs to its
\* end; the state updates re-render the component, which runs the effect
Complete(i) ==
    /\ i \in inflight
    /\ mounted
    /\ MicrotaskPending => IsMicrotask(i)
    /\ \E c \in translate(i.queue[1].message, TranslateOptions(i.languageCode)),
          speakThrows \in BOOLEAN :
         LET e == translateTextResume(i, c.result, speakThrows)
         IN  /\ caption' = e.caption
             /\ translationError' = e.error
             /\ spoken' = spoken \o [k \in 1..Len(e.speak) |-> e.speak[k].id]
             /\ captionLog' = Append(captionLog, i.queue[1].id)
             /\ transcriptionQueue' =
                    IF e.removes THEN slice1(transcriptionQueue) ELSE transcriptionQueue
             /\ lastDrain' =
                    [id |-> i.queue[1].id, message |-> i.queue[1].message,
                     sender |-> i.queue[1].sender, allFailed |-> c.allFailed,
                     text |-> c.result.text,
                     threw |-> speakThrows /\ e.speak # << >>, escaped |-> e.escaped,
                     said |-> e.speak,
                     lenBefore |-> Len(transcriptionQueue),
                     lenAfter |-> Len(transcriptionQueue'),
                     removed |-> IF e.removes /\ transcriptionQueue # << >>
                                     THEN transcriptionQueue[1].id ELSE 0,
                     others |-> Cardinality({ k \in 1..Len(transcriptionQueue) :
                                    transcriptionQueue[k].id # i.queue[1].id })]
    /\ RunEffect(transcriptionQueue', inflight \ { i })
    /\ UNCHANGED << otherVars, client, languageCode, pushed, mounted >>

\* the display timer fires: setCaption({message: "", sender: ""}) and
\* setTranslationError(null)
TimerFire ==
    /\ timer.pending # { }
    /\ ~MicrotaskPending
    /\ \E t \in timer.pending : timer' = [timer EXCEPT !.pending = @ \ { t }]
    /\ IF mounted
           THEN caption' = ClearedCaption /\ translationError' = Null
           ELSE UNCHANGED << caption, translationError >>
    /\ lastDrain' = NoDrain
    /\ UNCHANGED << otherVars, client, transcriptionQueue, languageCode, inflight, pushed,
                    nextInv, captionLog, spoken, mounted >>

\* the Captions component is torn down: the cleanup of the last effect runs
\* and the component's state is discarded
Unmount ==
    /\ mounted
    /\ ~MicrotaskPending
    /\ mounted' = FALSE
    /\ timer' = cleanup(timer)
    /\ caption' = UndefinedCaption
    /\ translationError' = Null
    /\ lastDrain' = NoDrain
    /\ UNCHANGED << otherVars, client, transcriptionQueue, languageCode, inflight,
                    pushed, nextInv, captionLog, spoken >>

Next ==
    \/ \E u \in CaptionUtterances : Push(u[1], u[2])
    \/ \E i \in inflight : Complete(i)
    \/ \E i \in inflight : CompleteUnmounted(i)
    \/ TimerFire
    \/ Unmount

Spec == Init /\ [][Next]_vars

\* a pending setTimeout callback is run by the event loop
FairSpec == Spec /\ WF_vars(TimerFire)

(***************************************************************************)
(* One call of the translation client, request by request                  *)
(***************************************************************************)
ClientOptions == [from : FromValues, to : ToValues]

InitClient ==
    /\ InitCaptions
    /\ languageCode = EN
    /\ transcribe = IdleTranscribe
    /\ rooms = IdleRooms
    /\ \E v \in Versions, t \in Messages, op \in ClientOptions, cf \in BOOLEAN :
           client = NewCall(v, t, op, cf)

\* the function is called and runs up to its first request
Call ==
    /\ client.pc = "start"
    /\ client' = ClientStart(client.version, client.text, client.options,
                             client.configured)
    /\ UNCHANGED << captionVars, otherVars >>

\* a network request of the call is answered
Request(o) ==
    /\ client.pc \notin { "start", "returned" }
    /\ o \in (IF client.pc = "marian" THEN MarianOutcomes ELSE Outcomes)
    /\ client' = Attempt(client, o)
    /\ UNCHANGED << captionVars, otherVars >>

NextClient ==
    \/ Call
    \/ \E o \in MarianOutcomes : Request(o)

SpecClient == InitClient /\ [][NextClient]_vars

(***************************************************************************)
(* The useTranscribe hook and the recognition it drives                    *)
(***************************************************************************)
InitTranscribe ==
    /\ InitCaptions
    /\ languageCode = EN
    /\ client = IdleClient
    /\ rooms = IdleRooms
    /\ \E sup \in BOOLEAN, audio \in BOOLEAN, code \in RecognitionLanguages :
           transcribe = [NewHook(sup, audio, code) EXCEPT !.mounted = FALSE]

\* the component using the hook mounts: the listening effect runs
MountTranscribe ==
    /\ ~transcribe.mounted
    /\ transcribe = [NewHook(transcribe.supported, transcribe.audioEnabled,
                              transcribe.languageCode) EXCEPT !.mounted = FALSE]
    /\ transcribe' = listeningEffect([transcribe EXCEPT !.mounted = TRUE])
    /\ UNCHANGED << captionVars, client, rooms >>

\* the audioEnabled prop is toggled: cleanup of the last effect, then the effect
ToggleAudio ==
    /\ transcribe.mounted
    /\ transcribe.changes < MaxChanges
    /\ transcribe' =
           listeningEffect([listeningCleanup(transcribe) EXCEPT
                               !.audioEnabled = ~transcribe.audioEnabled,
                               !.changes = transcribe.changes + 1])
    /\ UNCHANGED << captionVars, client, rooms >>

\* the languageCode prop changes: cleanup of the last effect, then the effect
ChangeLanguage(code) ==
    /\ transcribe.mounted
    /\ transcribe.changes < MaxChanges
    /\ code # transcribe.languageCode
    /\ transcribe' =
           listeningEffect([listeningCleanup(transcribe) EXCEPT
                               !.languageCode = code,
                               !.changes = transcribe.changes + 1])
    /\ UNCHANGED << captionVars, client, rooms >>

\* a recognition session delivers an interim result
Interim(t) ==
    /\ transcribe.mounted
    /\ transcribe.sessions # { }
    /\ transcribe.transcript # t
    /\ transcribe' = [transcribe EXCEPT !.transcript = t]
    /\ UNCHANGED << captionVars, client, rooms >>

\* a recognition session finalizes a result: finalTranscript changes and the
\* hook re-renders
Finalize(t) ==
    /\ transcribe.mounted
    /\ transcribe.sessions # { }
    /\ transcribe.finals < MaxFinal
    /\ transcribe' =
           settle(transcribe.finalTranscript,
                  [transcribe EXCEPT !.finalTranscript = transcribe.finalTranscript \o t,
                                     !.transcript = transcribe.finalTranscript \o t,
                                     !.finals = transcribe.finals + 1])
    /\ UNCHANGED << captionVars, client, rooms >>

\* the stop of a session completes
StopCompleted(x) ==
    /\ x \in transcribe.sessions
    /\ x.status = "stopping"
    /\ transcribe' = [transcribe EXCEPT !.sessions = transcribe.sessions \ { x }]
    /\ UNCHANGED << captionVars, client, rooms >>

\* the component using the hook unmounts: the cleanup runs
UnmountTranscribe ==
    /\ transcribe.mounted
    /\ transcribe' = [listeningCleanup(transcribe) EXCEPT !.mounted = FALSE]
    /\ UNCHANGED << captionVars, client, rooms >>

NextTranscribe ==
    \/ MountTranscribe
    \/ ToggleAudio
    \/ \E code \in RecognitionLanguages : ChangeLanguage(code)
    \/ \E t \in SpokenTexts : Interim(t)
    \/ \E t \in SpokenTexts : Finalize(t)
    \/ \E x \in transcribe.sessions : StopCompleted(x)
    \/ UnmountTranscribe

SpecTranscribe == InitTranscribe /\ [][NextTranscribe]_vars

(***************************************************************************)
(* roomsRouter calls, interleaved at their awaits                          *)
(***************************************************************************)
InitRooms ==
    /\ InitCaptions
    /\ languageCode = EN
    /\ client = IdleClient
    /\ transcribe = IdleTranscribe
    /\ rooms = IdleRooms

roomsUnchanged == UNCHANGED << captionVars, client, transcribe >>

\* a client calls joinRoom; the procedure runs up to its first await
JoinRoom(user, room, tokenOk) ==
    /\ Len(rooms.calls) < MaxCalls
    /\ rooms' = [rooms EXCEPT
                    !.calls = Append(rooms.calls,
                                     joinStart(NewProcedure("joinRoom", user, room, tokenOk)))]
    /\ roomsUnchanged

\* participant.findUnique of call k settles
JoinFind(k, dbFails) ==
    /\ rooms.calls[k].kind = "joinRoom"
    /\ rooms.calls[k].pc = "find"
    /\ rooms' = [rooms EXCEPT
                    !.calls[k] = joinAfterFind(rooms.calls[k], rooms.participants, dbFails)]
    /\ roomsUnchanged

\* participant.create of call k settles
JoinCreate(k, dbFails) ==
    /\ rooms.calls[k].kind = "joinRoom"
    /\ rooms.calls[k].pc = "create"
    /\ rooms' = [rooms EXCEPT
                    !.calls[k] = joinAfterCreate(rooms.calls[k], rooms.participants, dbFails),
                    !.participants =
                        IF CreateThrows(rooms.calls[k], rooms.participants, dbFails)
                            THEN rooms.participants
                            ELSE Append(rooms.participants,
                                        << rooms.calls[k].user, rooms.calls[k].room >>)]
    /\ roomsUnchanged

\* a client calls createRoom; the procedure awaits room.create
CreateRoom(user) ==
    /\ Len(rooms.calls) < MaxCalls
    /\ rooms' = [rooms EXCEPT
                    !.calls = Append(rooms.calls,
                                     [NewProcedure("createRoom", user, "", TRUE)
                                          EXCEPT !.pc = "room"])]
    /\ roomsUnchanged

\* room.create of call k settles
CreateDb(k, dbFails) ==
    /\ rooms.calls[k].kind = "createRoom"
    /\ rooms.calls[k].pc = "room"
    /\ LET name == GeneratedNames[Cardinality(rooms.dbRooms) + 1]
       IN  rooms' = [rooms EXCEPT
                        !.calls[k] = createAfterDb(rooms.calls[k], name, dbFails),
                        !.dbRooms = IF dbFails THEN rooms.dbRooms
                                    ELSE rooms.dbRooms \cup { name }]
    /\ roomsUnchanged

\* roomClient.createRoom of call k settles
CreateLivekit(k, livekitFails) ==
    /\ rooms.calls[k].kind = "createRoom"
    /\ rooms.calls[k].pc = "livekit"
    /\ rooms' = [rooms EXCEPT
                    !.calls[k] = createAfterLivekit(rooms.calls[k], livekitFails)]
    /\ roomsUnchanged

NextRooms ==
    \/ \E user \in Users, room \in RoomNames, tokenOk \in BOOLEAN :
           JoinRoom(user, room, tokenOk)
    \/ \E k \in 1..Len(rooms.calls), dbFails \in BOOLEAN : JoinFind(k, dbFails)
    \/ \E k \in 1..Len(rooms.calls), dbFails \in BOOLEAN : JoinCreate(k, dbFails)
    \/ \E user \in Users : CreateRoom(user)
    \/ \E k \in 1..Len(rooms.calls), dbFails \in BOOLEAN : CreateDb(k, dbFails)
    \/ \E k \in 1..Len(rooms.calls), livekitFails \in BOOLEAN : CreateLivekit(k, livekitFails)

SpecRooms == InitRooms /\ [][NextRooms]_vars

(***************************************************************************)
(* Properties of the caption queue (Spec, FairSpec)                        *)
(***************************************************************************)
Count(seq, x) == Cardinality({ k \in 1..Len(seq) : seq[k] = x })

InQueue(id) == \E k \in 1..Len(transcriptionQueue) : transcriptionQueue[k].id = id

\* C1: caption updates happen in enqueue order (an utterance enqueued earlier
\* is never shown after one enqueued later), and right after a drain iteration
\* the caption's sender is the sender of the utterance it processed.
C1_CaptionsInEnqueueOrder ==
    /\ \A j \in 1..Len(captionLog) : \A k \in j..Len(captionLog) :
           captionLog[j] <= captionLog[k]
    /\ lastDrain.id # 0 => caption.sender = lastDrain.sender

\* C2: at most one translate call has started and not yet returned.
C2_SingleFlight == Cardinality(inflight) <= 1

\* C3: no utterance is displayed or spoken twice, and once the queue has been
\* drained every utterance with a text to translate was displayed and spoken
\* exactly once.
C3_ConsumedExactlyOnce ==
    /\ \A id \in 1..pushed : Count(captionLog, id) <= 1 /\ Count(spoken, id) <= 1
    /\ (mounted /\ transcriptionQueue = << >> /\ inflight = { }) =>
           /\ Len(captionLog) = pushed
           /\ Len(spoken) <= pushed

\* C4: the queue always makes forward progress: only a completing translation
\* removes an utterance, so whenever no translation is in flight (and the
\* pushes may stop here) the queue has been emptied.
C4_QueueDrains ==
    (mounted /\ inflight = { }) => transcriptionQueue = << >>

C6_AllFailedShowsOriginalWithError ==
    (lastDrain.id # 0 /\ lastDrain.allFailed) =>
        /\ caption = [sender |-> lastDrain.sender, message |-> lastDrain.message]
        /\ translationError # Null
        /\ ~InQueue(lastDrain.id)

(***************************************************************************)
(* Properties of the translation client (SpecClient)                       *)
(***************************************************************************)
ClientReturned == client.pc = "returned"

\* no request of the call was answered with a translated text
NoTranslation == \A k \in 1..Len(client.outcomes) : client.outcomes[k].kind # "ok"

\* every request of the call errored or timed out, and there was one
EveryAttemptFailed ==
    /\ client.calls # << >>
    /\ \A k \in 1..Len(client.outcomes) : client.outcomes[k].kind \in { "error", "timeout" }

\* C7: every call returns a result, and when no endpoint yields a translation
\* (for a text that is not blank) the result's text is the input text and its
\* detected language is options.from, "auto" if absent.
C7_DegradesToInputText ==
    (ClientReturned /\ NoTranslation /\ ~IsBlank(client.text)) =>
        /\ client.result.text = client.text
        /\ client.result.iso = FromOrAuto(client.options)

\* C8: a result that is the original text because every endpoint attempt
\* failed carries raw.error.
C8_DegradedCarriesError ==
    (ClientReturned /\ EveryAttemptFailed) => client.result.raw = "error"

\* the order of the endpoints of the function setCORS returns
ChainOrder == << "libre", "argos", "google" >>

\* C9: translateWithCORS calls LibreTranslate, then the Argos mirror, then
\* Google Translate; an endpoint is called only after every earlier one gave
\* no translation; the first translation ends the chain and is the returned
\* text; at most three calls are made.
C9_EndpointChain ==
    client.version = "setCORSLibre" =>
        /\ Len(client.calls) <= Len(ChainOrder)
        /\ \A k \in 1..Len(client.calls) :
               /\ client.calls[k] = ChainOrder[k]
               /\ \A j \in 1..(k - 1) : client.outcomes[j].kind # "ok"
               /\ client.outcomes[k].kind = "ok" =>
                      /\ k = Len(client.calls)
                      /\ ClientReturned
                      /\ client.result.text = client.outcomes[k].text

\* the primary endpoint failed and the fallback endpoint answered
C9_Witness ==
    /\ client.version = "setCORSLibre"
    /\ ClientReturned
    /\ client.calls = << "libre", "argos" >>
    /\ client.outcomes[1].kind = "timeout"
    /\ client.outcomes[2].kind = "ok"
    /\ client.result.text = << "x" >>

\* C10: for an empty or whitespace-only text the client makes no network call
\* and returns the text "".
C10_BlankShortCircuits ==
    IsBlank(client.text) =>
        /\ client.calls = << >>
        /\ ClientReturned => client.result.text = << >>

\* the MarianMT functions (translate and the function its setCORS returns)
IsMarian == client.version \in { "translateMarian", "setCORSMarian" }

\* the last answer of the call
LastOutcome == client.outcomes[Len(client.outcomes)]

\* C11: on the MarianMT endpoint contract an answer with none of
\* translated_text, translatedText and text is a failure: the call returns the
\* degraded result, whose text is the input text.
C11_MissingTextIsFailure ==
    (IsMarian /\ ClientReturned /\ client.outcomes # << >> /\ LastOutcome.kind = "noText") =>
        client.result.text = client.text

\* C12: right after a drain iteration the caption's message is not empty: it
\* is the text translate resolved with or the utterance's own message.
C12_CaptionNeverEmpty ==
    lastDrain.id # 0 =>
        /\ Truthy(caption.message)
        /\ caption.message \in { lastDrain.text, lastDrain.message }

\* translate resolved with an undefined text and the caption shows the
\* utterance's message
C12_Witness ==
    /\ lastDrain.id # 0
    /\ lastDrain.text = Undefined
    /\ caption.message = lastDrain.message
    /\ Truthy(caption.message)

\* C13: translating from a language to the same language calls no endpoint
\* beyond the first, whatever the first endpoint answers, and returns the
\* text unchanged unless an endpoint answered another text.
C13_SameLanguageNoFallback ==
    (client.version = "setCORSLibre" /\ client.options.from = client.options.to) =>
        /\ Len(client.calls) <= 1
        /\ (ClientReturned /\ ~IsBlank(client.text)
              /\ \A k \in 1..Len(client.outcomes) :
                     client.outcomes[k].kind = "ok" => client.outcomes[k].text = client.text)
               => client.result.text = client.text

\* a caption or an error indicator is displayed
Displayed == Truthy(caption.message) \/ translationError # Null

\* what the display timer leaves: no caption text and no error indicator
Cleared == caption.message = << >> /\ translationError = Null

\* C14: a caption (or error indicator) that is displayed while no translation
\* is in flight is cleared by the display timer, unless a new utterance starts
\* a translation first or the component is torn down: it does not stay
\* displayed forever.
C14_CaptionCleared ==
    (mounted /\ Displayed /\ inflight = { }) ~> (Cleared \/ inflight # { } \/ ~mounted)

\* the timer has fired after a drain iteration displayed a caption
C14_Witness ==
    /\ Cleared
    /\ mounted
    /\ timer.pending = { }
    /\ captionLog # << >>
    /\ inflight = { }

\* C21: a completed drain iteration shortens the queue by exactly one, and
\* the utterance it removes is the one it translated and displayed.
C21_DrainRemovesItsOwnItem ==
    lastDrain.id # 0 =>
        /\ lastDrain.lenAfter = lastDrain.lenBefore - 1
        /\ lastDrain.removed = lastDrain.id

\* C22: the interrupt flag given to speakOut is true exactly when no other
\* utterance is in the queue at the moment speakOut is called.
C22_InterruptIffLastItem ==
    (lastDrain.id # 0 /\ lastDrain.said # << >>) =>
        (lastDrain.said[1].interrupt <=> lastDrain.others = 0)

\* C23: a drain iteration that sets the caption (speakOut not throwing) calls
\* speakOut exactly once, with the caption's message and the viewer's
\* language code.
C23_CaptionIsSpoken ==
    (lastDrain.id # 0 /\ ~lastDrain.threw) =>
        /\ Len(lastDrain.said) = 1
        /\ lastDrain.said[1].text = caption.message
        /\ lastDrain.said[1].languageCode = languageCode

\* tag is the part of code before its first "-"
IsPrimarySubtag(tag, code) ==
    /\ Len(tag) <= Len(code)
    /\ tag = SubSeq(code, 1, Len(tag))
    /\ \A k \in 1..Len(tag) : tag[k] # "-"
    /\ Len(tag) < Len(code) => code[Len(tag) + 1] = "-"

\* C24: every translate call of the consumer has from = "auto" and to = the
\* primary subtag of the viewer's language code, "en" when it is empty.
C24_TargetIsPrimarySubtag ==
    \A i \in inflight :
        /\ i.languageCode = languageCode
        /\ TranslateOptions(i.languageCode).from = AUTO
        /\ \E n \in 0..Len(languageCode) :
               LET tag == SubSeq(languageCode, 1, n)
               IN  /\ IsPrimarySubtag(tag, languageCode)
                   /\ TranslateOptions(i.languageCode).to =
                          (IF tag = << >> THEN EN ELSE tag)

\* a translate call for the viewer language "kn-IN" is in flight, to "kn"
C24_Witness ==
    \E i \in inflight :
        /\ i.languageCode = << "k", "n", "-", "I", "N" >>
        /\ TranslateOptions(i.languageCode) = [from |-> AUTO, to |-> << "k", "n" >>]

\* C27: at most one display timer is pending, it is the one the latest run
\* of the effect armed, and none is pending once the component is torn down.
C27_OneDisplayTimer ==
    /\ Cardinality(timer.pending) <= 1
    /\ \A t \in timer.pending : t = timer.current
    /\ ~mounted => timer.pending = { }

\* the component was torn down with a translation in flight after the effect
\* had run for two pushes, and no timer is pending
C27_Witness ==
    /\ ~mounted
    /\ pushed > 1
    /\ inflight # { }
    /\ timer.pending = { }

\* C28: once the component is torn down, no step calls speakOut or removes an
\* item from the queue.
C28_NoEffectAfterTeardown ==
    [][~mounted => /\ spoken' = spoken
                   /\ Len(transcriptionQueue') >= Len(transcriptionQueue)]_vars

(***************************************************************************)
(* Properties of the transcript producer (SpecTranscribe)                  *)
(***************************************************************************)
\* C15: the hook has emitted one message {message, roomName, isFinal: true}
\* per finalization, none for interim results, and after each emission the
\* local transcript is reset without a further emission.
C15_OneMessagePerFinalization ==
    /\ Len(transcribe.emitted) = transcribe.finals
    /\ \A k \in 1..Len(transcribe.emitted) :
           /\ transcribe.emitted[k].isFinal
           /\ transcribe.emitted[k].roomName = RoomName
           /\ transcribe.emitted[k].message \in SpokenTexts
    /\ transcribe.finalTranscript = << >>
    /\ transcribe.finals > 0 /\ transcribe.transcript # << >> =>
           transcribe.transcript \in SpokenTexts

\* two finalizations, two messages, and an interim result held since
C15_Witness ==
    /\ transcribe.finals = 2
    /\ Len(transcribe.emitted) = 2
    /\ transcribe.transcript # << >>

\* C16: a recognition session is started only after the stop of the previous
\* one has completed: no two sessions exist at the same time.
C16_NoOverlappingSessions ==
    /\ ~transcribe.startedDuringStop
    /\ Cardinality(transcribe.sessions) <= 1

\* C17: without speech recognition support startListening is never called
\* and no message is emitted, whatever the toggles and language changes.
C17_InertWithoutSupport ==
    ~transcribe.supported =>
        /\ transcribe.started = 0
        /\ transcribe.sessions = { }
        /\ transcribe.emitted = << >>

\* audio was toggled and the language changed without support
C17_Witness ==
    /\ ~transcribe.supported
    /\ transcribe.audioEnabled
    /\ transcribe.changes = MaxChanges
    /\ transcribe.started = 0

\* the recognition sessions that are listening
Listening == { x \in transcribe.sessions : x.status = "listening" }

\* C25: while the hook is mounted, recognition is listening exactly when
\* audioEnabled is true and the browser supports recognition, and the
\* listening session has the current languageCode ("en-US" when none is
\* given); after the unmount no session is listening.
C25_ListeningFollowsProps ==
    /\ transcribe.mounted =>
           /\ Listening # { } <=> (transcribe.audioEnabled /\ transcribe.supported)
           /\ Cardinality(Listening) <= 1
           /\ \A x \in Listening :
                  x.language = (IF transcribe.languageCode = << >> THEN EN_US
                                ELSE transcribe.languageCode)
    /\ ~transcribe.mounted => Listening = { }

\* recognition was restarted for the language "kn-IN" and is listening
C25_Witness ==
    /\ transcribe.mounted
    /\ transcribe.audioEnabled
    /\ transcribe.changes > 1
    /\ transcribe.started > 1
    /\ \E x \in Listening : x.language = KN_IN

(***************************************************************************)
(* Properties of the rooms router (SpecRooms)                              *)
(***************************************************************************)
Calls(kind) == { k \in 1..Len(rooms.calls) : rooms.calls[k].kind = kind }

Done(k) == rooms.calls[k].pc = "done"

\* identity and roomName are present and the token was generated
TokenIssued(k) ==
    rooms.calls[k].user # "" /\ rooms.calls[k].room # "" /\ rooms.calls[k].tokenOk

\* C18: whenever the token was generated, joinRoom returns {identity,
\* accessToken}, whether or not the participant lookup or creation fails.
C18_JoinSurvivesDbFailure ==
    \A k \in Calls("joinRoom") :
        (Done(k) /\ TokenIssued(k)) =>
            /\ rooms.calls[k].outcome = "returned"
            /\ rooms.calls[k].value.identity = rooms.calls[k].user
            /\ rooms.calls[k].value.accessToken =
                   Token(rooms.calls[k].user, rooms.calls[k].room)

\* a joinRoom call whose database call failed has returned its token
C18_Witness ==
    \E k \in Calls("joinRoom") :
        /\ Done(k)
        /\ rooms.calls[k].dbFailed
        /\ rooms.calls[k].outcome = "returned"
        /\ rooms.participants = << >>

C20_TokenFailureBlocksJoin ==
    \A k \in Calls("joinRoom") :
        ~TokenIssued(k) =>
            /\ Done(k)
            /\ rooms.calls[k].outcome = "failed"
            /\ rooms.calls[k].value = NoValue
            /\ ~rooms.calls[k].created
            /\ ~rooms.calls[k].dbFailed

\* a joinRoom call failed on its token while another call recorded its
\* participant
C20_Witness ==
    \E k \in Calls("joinRoom") :
        /\ rooms.calls[k].user = "u1"
        /\ rooms.calls[k].room = "r1"
        /\ ~rooms.calls[k].tokenOk
        /\ rooms.calls[k].outcome = "failed"
        /\ rooms.participants # << >>

====
